---- MODULE Spec2Model ----
(***************************************************************************)
(* Model of the two analyze-video route handlers (POST) of video-or-app:   *)
(* the streaming route (src/unnamed/part_000) and the non-streaming route  *)
(* (src/next.config.mjs, lines 12-191), together with the WHATWG           *)
(* ReadableStream / TextDecoder objects the streaming route drives.        *)
(*                                                                         *)
(* Strings are sequences of one-character strings.  A long string (a data  *)
(* URL) is a record [head, unit, reps, rest]: the literal characters head, *)
(* followed by reps copies of unit, followed by rest.                      *)
(***************************************************************************)
EXTENDS Integers, Sequences, FiniteSets, TLC

\* ------------------------------------------------------------------ bounds
\* Number of chunks the provider may deliver on one streaming response.
MaxChunks == 2

\* ----------------------------------------------------------- JS strings
IsSpace(c) == c \in {" ", "\n", "\t"}

RECURSIVE TrimStart(_)
TrimStart(s) ==
    IF s = <<>> THEN <<>>
    ELSE IF IsSpace(Head(s)) THEN TrimStart(Tail(s)) ELSE s

RECURSIVE TrimEnd(_)
TrimEnd(s) ==
    IF s = <<>> THEN <<>>
    ELSE IF IsSpace(s[Len(s)]) THEN TrimEnd(SubSeq(s, 1, Len(s) - 1)) ELSE s

\* String.prototype.trim
Trim(s) == TrimEnd(TrimStart(s))

\* A plain string as a long-string record (no periodic part).
Plain(s) == [head |-> s, unit |-> <<>>, reps |-> 0, rest |-> <<>>]

\* Truthiness of a long string: non-empty.
Truthy(u) == u.head # <<>> \/ (u.reps > 0 /\ u.unit # <<>>) \/ u.rest # <<>>

\* ------------------------------------------------------------ new URL(s)
Alpha == {"a", "b", "c", "d", "e", "f", "g", "h", "i", "j", "k", "l", "m",
          "n", "o", "p", "q", "r", "s", "t", "u", "v", "w", "x", "y", "z"}
Digit == {"0", "1", "2", "3", "4", "5", "6", "7", "8", "9"}

\* Index of the first ":" of s, or 0.
RECURSIVE ColonAt(_, _)
ColonAt(s, i) ==
    IF i > Len(s) THEN 0
    ELSE IF s[i] = ":" THEN i ELSE ColonAt(s, i + 1)

\* The scheme of s (the characters before the first colon), or <<>> when s
\* does not start with a scheme.
SchemeOf(s) ==
    LET c == ColonAt(s, 1) IN
    IF c < 2 THEN <<>>
    ELSE IF s[1] \notin Alpha THEN <<>>
    ELSE IF \A i \in 2..(c - 1) : s[i] \in Alpha \cup Digit \cup {"+", "-", "."}
         THEN SubSeq(s, 1, c - 1) ELSE <<>>

SpecialSchemes == { <<"h","t","t","p">>, <<"h","t","t","p","s">>,
                    <<"f","t","p">>, <<"w","s">>, <<"w","s","s">> }

RECURSIVE SkipSlashes(_)
SkipSlashes(s) ==
    IF s = <<>> THEN <<>>
    ELSE IF Head(s) \in {"/", "\\"} THEN SkipSlashes(Tail(s)) ELSE s

RECURSIVE HostOf(_)
HostOf(s) ==
    IF s = <<>> THEN <<>>
    ELSE IF Head(s) \in {"/", "\\", "?", "#"} THEN <<>>
    ELSE <<Head(s)>> \o HostOf(Tail(s))

\* TRUE iff `new URL(s)` does not throw: s has a scheme, and a special
\* scheme (http, https, ftp, ws, wss) is followed by a non-empty host with
\* no forbidden code point.
UrlParses(s) ==
    LET scheme == SchemeOf(s) IN
    IF scheme = <<>> THEN FALSE
    ELSE IF scheme \in SpecialSchemes
         THEN LET host == HostOf(SkipSlashes(SubSeq(s, Len(scheme) + 2, Len(s))))
              IN  host # <<>> /\ \A i \in 1..Len(host) : ~IsSpace(host[i])
         ELSE TRUE

\* -------------------------------------------------- Buffer / base64 / File
\* A File is [kind |-> "File", size, type, pattern]: its byte at offset i
\* (from 0) is pattern[(i % 3) + 1].
B64Pad == 64

\* Enc3 with the third sextet taking four bits of the last byte.
Enc3WrongShift(b) ==
    << b[1] \div 4,
       ((b[1] % 4) * 16) + (b[2] \div 16),
       ((b[2] % 16) * 4) + (b[3] \div 16),
       b[3] % 64 >>

\* The four sextets of three bytes.
Enc3(b) ==
    << b[1] \div 4,
       ((b[1] % 4) * 16) + (b[2] \div 16),
       ((b[2] % 16) * 4) + (b[3] \div 64),
       b[3] % 64 >>

\* The base64 tail of the last one or two bytes.
EncRest(b) ==
    IF Len(b) = 0 THEN <<>>
    ELSE IF Len(b) = 1
         THEN << b[1] \div 4, (b[1] % 4) * 16, B64Pad, B64Pad >>
         ELSE << b[1] \div 4,
                 ((b[1] % 4) * 16) + (b[2] \div 16),
                 (b[2] % 16) * 4,
                 B64Pad >>

DataPrefix == <<"d","a","t","a",":">>
Base64Marker == <<";","b","a","s","e","6","4",",">>
DefaultMime == <<"v","i","d","e","o","/","m","p","4">>

\* fileToDataUrl: `data:${mime};base64,${base64}` of the whole buffer.
fileToDataUrl(file) ==
    LET mime == IF file.type # <<>> THEN file.type ELSE DefaultMime
        full == file.size \div 3
        left == file.size % 3
    IN  [ head |-> DataPrefix \o mime \o Base64Marker,
          unit |-> IF full = 0 THEN <<>> ELSE Enc3(file.pattern),
          reps |-> full,
          rest |-> EncRest(SubSeq(file.pattern, 1, left)) ]

\* maxBytes of both routes.
maxBytes == 100 * 1024 * 1024

\* ------------------------------------------------------- request inputs
NullField == [kind |-> "null"]
StrField(s) == [kind |-> "string", text |-> s]

WebmMime == <<"v","i","d","e","o","/","w","e","b","m">>

\* Values of the multipart field `video`: absent, a text field, or a File.
VideoFields ==
    { NullField,
      StrField(<<"x">>),
      [kind |-> "File", size |-> 0, type |-> DefaultMime, pattern |-> <<0, 0, 0>>],
      [kind |-> "File", size |-> 1, type |-> <<>>, pattern |-> <<77, 255, 0>>],
      [kind |-> "File", size |-> 2, type |-> DefaultMime, pattern |-> <<255, 216, 9>>],
      [kind |-> "File", size |-> 3, type |-> <<>>, pattern |-> <<0, 1, 254>>],
      [kind |-> "File", size |-> 4, type |-> WebmMime, pattern |-> <<26, 69, 223>>],
      [kind |-> "File", size |-> maxBytes, type |-> WebmMime, pattern |-> <<0, 16, 131>>],
      [kind |-> "File", size |-> maxBytes + 1, type |-> <<>>, pattern |-> <<0, 0, 1>>] }

\* Values of the multipart field `videoUrl`.
UrlFields ==
    { NullField,
      StrField(<<" ", " ">>),
      StrField(<<"n","o","t"," ","a"," ","u","r","l">>),
      StrField(<<"h","t","t","p",":","/","/">>),
      StrField(<<" ","h","t","t","p","s",":","/","/","h","/","v"," ">>),
      StrField(<<"m","a","i","l","t","o",":","x">>) }

\* Values of the multipart field `focusPrompt`.
FocusFields ==
    { NullField,
      StrField(<<" ">>),
      StrField(<<" ","f","o","o","t","w","o","r","k"," ">>) }

\* process.env.OPENROUTER_API_KEY: unset, empty, or set.
ApiKeys == { "undefined", "", "sk-or-key" }

\* FieldText without the trim.
FieldTextNoTrim(f) == IF f.kind = "string" THEN f.text ELSE <<>>

\* `(formData.get(name) || "").toString().trim()`
FieldText(f) == IF f.kind = "string" THEN Trim(f.text) ELSE <<>>

\* JS truthiness of a form field value: null and "" are falsy, a File and
\* a non-empty string are truthy.
FieldTruthy(f) ==
    CASE f.kind = "null" -> FALSE
      [] f.kind = "string" -> f.text # <<>>
      [] OTHER -> TRUE

\* ------------------------------------------------------------ responses
NoResponse == [kind |-> "none"]

\* NextResponse.json({error, details?}, {status})
ErrorJson(status, error, details) ==
    [kind |-> "json", status |-> status, error |-> error, details |-> details]

\* The state of `videoUrl` after lines 41-77, or the response returned from
\* inside them; urlChecked records whether `new URL(urlInput)` was evaluated.
NoVideoUrl(checked) == [kind |-> "null", urlChecked |-> checked]
Resolved(u, checked) == [kind |-> "url", url |-> u, urlChecked |-> checked]
Rejected(r, checked) == [kind |-> "response", response |-> r, urlChecked |-> checked]

\* --------------------------------------------- streaming route, part_000
\* ResolveStream with the URL branch tried before the file branch.
ResolveStreamUrlFirst(fd) ==
    LET urlInput == FieldText(fd.videoUrl)
        fileInput == fd.video
        videoUrl ==
            IF urlInput # <<>>
            THEN IF ~UrlParses(urlInput)
                 THEN Rejected(ErrorJson(400, "Invalid video URL provided.", <<>>), TRUE)
                 ELSE Resolved(Plain(urlInput), TRUE)
            ELSE IF fileInput.kind = "File"
            THEN IF fileInput.size = 0
                 THEN Rejected(ErrorJson(400, "Uploaded video file is empty.", <<>>), FALSE)
                 ELSE IF fileInput.size > maxBytes
                 THEN Rejected(ErrorJson(413,
                         "Video too large. Please compress or trim below 100MB before uploading.",
                         <<>>), FALSE)
                 ELSE Resolved(fileToDataUrl(fileInput), FALSE)
            ELSE NoVideoUrl(FALSE)
    IN
    IF ~FieldTruthy(fileInput) /\ urlInput = <<>>
    THEN Rejected(ErrorJson(400, "Provide a video file or a video URL.", <<>>), FALSE)
    ELSE IF videoUrl.kind = "null" \/ (videoUrl.kind = "url" /\ ~Truthy(videoUrl.url))
    THEN Rejected(ErrorJson(400, "Unable to resolve video input.", <<>>), videoUrl.urlChecked)
    ELSE videoUrl

\* Lines 30-84 of the streaming route: the validation of the form fields
\* and the resolution of videoUrl.  Yields Resolved(videoUrl) or the
\* response returned early.
ResolveStream(fd) ==
    LET urlInput == FieldText(fd.videoUrl)
        fileInput == fd.video
        videoUrl ==
            IF fileInput.kind = "File"
            THEN IF fileInput.size = 0
                 THEN Rejected(ErrorJson(400, "Uploaded video file is empty.", <<>>), FALSE)
                 ELSE IF fileInput.size > maxBytes
                 THEN Rejected(ErrorJson(413,
                         "Video too large. Please compress or trim below 100MB before uploading.",
                         <<>>), FALSE)
                 ELSE Resolved(fileToDataUrl(fileInput), FALSE)
            ELSE IF urlInput # <<>>
            THEN IF ~UrlParses(urlInput)
                 THEN Rejected(ErrorJson(400, "Invalid video URL provided.", <<>>), TRUE)
                 ELSE Resolved(Plain(urlInput), TRUE)
            ELSE NoVideoUrl(FALSE)
    IN
    IF ~FieldTruthy(fileInput) /\ urlInput = <<>>
    THEN Rejected(ErrorJson(400, "Provide a video file or a video URL.", <<>>), FALSE)
    ELSE IF videoUrl.kind = "null" \/ (videoUrl.kind = "url" /\ ~Truthy(videoUrl.url))
    THEN Rejected(ErrorJson(400, "Unable to resolve video input.", <<>>), videoUrl.urlChecked)
    ELSE videoUrl

BaseInstruction ==
    "You are an expert video analysis system. Provide a structured, detailed analysis of the provided video. Include: (1) clear summary, (2) timeline/scene breakdown where relevant with approximate timestamps if inferable, (3) domain-specific insights (e.g., coaching, marketing hooks, storytelling, UX, security), (4) concise bullet-point recommendations."
FocusLead == " The user has an additional focus: \""
FocusTrail == "\". Prioritize this focus in your analysis while still covering core observations."
DefaultSuffix == " If no additional focus is provided, infer the most valuable insights for a professional audience."

\* A literal piece of text followed by the characters of a variable.
Seg(lit, chars) == [lit |-> lit, chars |-> chars]

\* MergedPromptStream that appends the default suffix in every case.
MergedPromptStreamBoth(fd) ==
    LET focusPrompt == FieldText(fd.focusPrompt) IN
    IF focusPrompt # <<>>
    THEN << Seg(BaseInstruction, <<>>), Seg(FocusLead, focusPrompt), Seg(FocusTrail, <<>>),
            Seg(DefaultSuffix, <<>>) >>
    ELSE << Seg(BaseInstruction, <<>>), Seg(DefaultSuffix, <<>>) >>

\* Lines 86-96: mergedPrompt, as its sequence of segments.
MergedPromptStream(fd) ==
    LET focusPrompt == FieldText(fd.focusPrompt) IN
    IF focusPrompt # <<>>
    THEN << Seg(BaseInstruction, <<>>), Seg(FocusLead, focusPrompt), Seg(FocusTrail, <<>>) >>
    ELSE << Seg(BaseInstruction, <<>>), Seg(DefaultSuffix, <<>>) >>

MODEL == "google/gemini-2.5-flash-lite"
OPENROUTER_URL == "https://openrouter.ai/api/v1/chat/completions"

\* Lines 98-129: the outbound fetch of the streaming route.
FetchCallStream(key, fd, url) ==
    [ endpoint |-> OPENROUTER_URL,
      method |-> "POST",
      authorization |-> <<"Bearer ", key>>,
      contentType |-> "application/json",
      title |-> "Video-Or AI Video Analysis",
      model |-> MODEL,
      role |-> "user",
      content |-> << [type |-> "text", text |-> MergedPromptStream(fd)],
                     [type |-> "input_video", url |-> url] >>,
      stream |-> TRUE ]

\* ------------------------------------- non-streaming route, next.config.mjs
\* ResolveJson with the size check written as `>=`.
ResolveJsonAtOrAbove(fd) ==
    LET urlInput == FieldText(fd.videoUrl)
        fileInput == fd.video
        videoUrl ==
            IF fileInput.kind = "File"
            THEN IF fileInput.size = 0
                 THEN Rejected(ErrorJson(400, "Uploaded video file is empty.", <<>>), FALSE)
                 ELSE IF fileInput.size >= maxBytes
                 THEN Rejected(ErrorJson(413,
                         "Video too large. Please compress or trim below 100MB before uploading.",
                         <<>>), FALSE)
                 ELSE Resolved(fileToDataUrl(fileInput), FALSE)
            ELSE IF urlInput # <<>>
            THEN IF ~UrlParses(urlInput)
                 THEN Rejected(ErrorJson(400, "Invalid video URL provided.", <<>>), TRUE)
                 ELSE Resolved(Plain(urlInput), TRUE)
            ELSE NoVideoUrl(FALSE)
    IN
    IF ~FieldTruthy(fileInput) /\ urlInput = <<>>
    THEN Rejected(ErrorJson(400, "Provide a video file or a video URL.", <<>>), FALSE)
    ELSE IF videoUrl.kind = "null" \/ (videoUrl.kind = "url" /\ ~Truthy(videoUrl.url))
    THEN Rejected(ErrorJson(400, "Unable to resolve video input.", <<>>), videoUrl.urlChecked)
    ELSE videoUrl

\* ResolveJson without the `new URL(urlInput)` check.
ResolveJsonNoUrlCheck(fd) ==
    LET urlInput == FieldText(fd.videoUrl)
        fileInput == fd.video
        videoUrl ==
            IF fileInput.kind = "File"
            THEN IF fileInput.size = 0
                 THEN Rejected(ErrorJson(400, "Uploaded video file is empty.", <<>>), FALSE)
                 ELSE IF fileInput.size > maxBytes
                 THEN Rejected(ErrorJson(413,
                         "Video too large. Please compress or trim below 100MB before uploading.",
                         <<>>), FALSE)
                 ELSE Resolved(fileToDataUrl(fileInput), FALSE)
            ELSE IF urlInput # <<>>
            THEN Resolved(Plain(urlInput), FALSE)
            ELSE NoVideoUrl(FALSE)
    IN
    IF ~FieldTruthy(fileInput) /\ urlInput = <<>>
    THEN Rejected(ErrorJson(400, "Provide a video file or a video URL.", <<>>), FALSE)
    ELSE IF videoUrl.kind = "null" \/ (videoUrl.kind = "url" /\ ~Truthy(videoUrl.url))
    THEN Rejected(ErrorJson(400, "Unable to resolve video input.", <<>>), videoUrl.urlChecked)
    ELSE videoUrl

\* Lines 41-95 of the non-streaming route: the validation of the form fields
\* and the resolution of videoUrl.  Yields Resolved(videoUrl) or the
\* response returned early.
ResolveJson(fd) ==
    LET urlInput == FieldText(fd.videoUrl)
        fileInput == fd.video
        videoUrl ==
            IF fileInput.kind = "File"
            THEN IF fileInput.size = 0
                 THEN Rejected(ErrorJson(400, "Uploaded video file is empty.", <<>>), FALSE)
                 ELSE IF fileInput.size > maxBytes
                 THEN Rejected(ErrorJson(413,
                         "Video too large. Please compress or trim below 100MB before uploading.",
                         <<>>), FALSE)
                 ELSE Resolved(fileToDataUrl(fileInput), FALSE)
            ELSE IF urlInput # <<>>
            THEN IF ~UrlParses(urlInput)
                 THEN Rejected(ErrorJson(400, "Invalid video URL provided.", <<>>), TRUE)
                 ELSE Resolved(Plain(urlInput), TRUE)
            ELSE NoVideoUrl(FALSE)
    IN
    IF ~FieldTruthy(fileInput) /\ urlInput = <<>>
    THEN Rejected(ErrorJson(400, "Provide a video file or a video URL.", <<>>), FALSE)
    ELSE IF videoUrl.kind = "null" \/ (videoUrl.kind = "url" /\ ~Truthy(videoUrl.url))
    THEN Rejected(ErrorJson(400, "Unable to resolve video input.", <<>>), videoUrl.urlChecked)
    ELSE videoUrl

\* Lines 97-107: mergedPrompt, as its sequence of segments.
MergedPromptJson(fd) ==
    LET focusPrompt == FieldText(fd.focusPrompt) IN
    IF focusPrompt # <<>>
    THEN << Seg(BaseInstruction, <<>>), Seg(FocusLead, focusPrompt), Seg(FocusTrail, <<>>) >>
    ELSE << Seg(BaseInstruction, <<>>), Seg(DefaultSuffix, <<>>) >>

\* FetchCallJson with the video part ahead of the text part.
FetchCallJsonVideoFirst(key, fd, url) ==
    [ endpoint |-> OPENROUTER_URL,
      method |-> "POST",
      authorization |-> <<"Bearer ", key>>,
      contentType |-> "application/json",
      title |-> "Video-Or AI Video Analysis",
      model |-> MODEL,
      role |-> "user",
      content |-> << [type |-> "input_video", url |-> url],
                     [type |-> "text", text |-> MergedPromptJson(fd)] >>,
      stream |-> FALSE ]

\* Lines 109-140: the outbound fetch of the non-streaming route.
FetchCallJson(key, fd, url) ==
    [ endpoint |-> OPENROUTER_URL,
      method |-> "POST",
      authorization |-> <<"Bearer ", key>>,
      contentType |-> "application/json",
      title |-> "Video-Or AI Video Analysis",
      model |-> MODEL,
      role |-> "user",
      content |-> << [type |-> "text", text |-> MergedPromptJson(fd)],
                     [type |-> "input_video", url |-> url] >>,
      stream |-> FALSE ]

\* ------------------------------------------- TextDecoder / TextEncoder
\* The state of `new TextDecoder()` (UTF-8, fatal false, ignoreBOM false).
NewDecoder ==
    [cp |-> 0, needed |-> 0, seen |-> 0, lower |-> 128, upper |-> 191, bomSeen |-> FALSE]

ResetDecoder(d) ==
    [d EXCEPT !.cp = 0, !.needed = 0, !.seen = 0, !.lower = 128, !.upper = 191]

\* The UTF-8 decoder run over bytes: the state reached and the code points
\* emitted (65533 is U+FFFD).
RECURSIVE Utf8Decode(_, _)
Utf8Decode(d, bytes) ==
    IF bytes = <<>> THEN [decoder |-> d, out |-> <<>>]
    ELSE
    LET b == Head(bytes)
        more == Tail(bytes)
    IN
    IF d.needed = 0
    THEN IF b <= 127
         THEN LET r == Utf8Decode(d, more) IN [r EXCEPT !.out = <<b>> \o @]
         ELSE IF b >= 194 /\ b <= 223
         THEN Utf8Decode([d EXCEPT !.needed = 1, !.cp = b % 32], more)
         ELSE IF b >= 224 /\ b <= 239
         THEN Utf8Decode([d EXCEPT !.needed = 2, !.cp = b % 16,
                                   !.lower = IF b = 224 THEN 160 ELSE 128,
                                   !.upper = IF b = 237 THEN 159 ELSE 191], more)
         ELSE IF b >= 240 /\ b <= 244
         THEN Utf8Decode([d EXCEPT !.needed = 3, !.cp = b % 8,
                                   !.lower = IF b = 240 THEN 144 ELSE 128,
                                   !.upper = IF b = 244 THEN 143 ELSE 191], more)
         ELSE LET r == Utf8Decode(d, more) IN [r EXCEPT !.out = <<65533>> \o @]
    ELSE IF b < d.lower \/ b > d.upper
         THEN LET r == Utf8Decode(ResetDecoder(d), bytes) IN [r EXCEPT !.out = <<65533>> \o @]
         ELSE LET cp == (d.cp * 64) + (b % 64) IN
              IF d.seen + 1 # d.needed
              THEN Utf8Decode([d EXCEPT !.cp = cp, !.seen = @ + 1,
                                        !.lower = 128, !.upper = 191], more)
              ELSE LET r == Utf8Decode(ResetDecoder(d), more) IN [r EXCEPT !.out = <<cp>> \o @]

\* decoder.decode(value, { stream: true }): the bytes are decoded from the
\* state the previous call left, an unfinished sequence stays in the
\* decoder, and a leading U+FEFF of the whole stream is dropped.
DecodeStream(d, value) ==
    LET r == Utf8Decode(d, value) IN
    IF d.bomSeen \/ r.out = <<>> THEN r
    ELSE [ decoder |-> [r.decoder EXCEPT !.bomSeen = TRUE],
           out |-> IF Head(r.out) = 65279 THEN Tail(r.out) ELSE r.out ]

\* new TextEncoder().encode(text): the UTF-8 bytes of the code points.
RECURSIVE Utf8Encode(_)
Utf8Encode(cps) ==
    IF cps = <<>> THEN <<>>
    ELSE
    LET c == Head(cps) IN
    ( IF c < 128 THEN <<c>>
      ELSE IF c < 2048 THEN << 192 + (c \div 64), 128 + (c % 64) >>
      ELSE IF c < 65536
           THEN << 224 + (c \div 4096), 128 + ((c \div 64) % 64), 128 + (c % 64) >>
           ELSE << 240 + (c \div 262144), 128 + ((c \div 4096) % 64),
                   128 + ((c \div 64) % 64), 128 + (c % 64) >> )
    \o Utf8Encode(Tail(cps))

\* Lines 159-160: the chunk enqueued for one value read from upstream, and
\* the decoder state left behind.
RelayChunk(d, value) ==
    LET r == DecodeStream(d, value) IN
    [decoder |-> r.decoder, chunk |-> Utf8Encode(r.out)]

\* -------------------------------------------------------- ReadableStream
NoStream == [kind |-> "none"]

\* new ReadableStream({ start }): readable, empty queue.
NewStream ==
    [kind |-> "stream", state |-> "readable", queue |-> <<>>, closeRequested |-> FALSE]

\* ReadableStreamDefaultControllerCanCloseOrEnqueue
CanCloseOrEnqueue(st) == st.state = "readable" /\ ~st.closeRequested

\* controller.enqueue(chunk), when it does not throw.
ControllerEnqueue(st, chunk) == [st EXCEPT !.queue = Append(@, chunk)]

\* controller.close(), when it does not throw: the stream closes once the
\* queue is drained.
ControllerClose(st) ==
    IF st.queue = <<>>
    THEN [st EXCEPT !.closeRequested = TRUE, !.state = "closed"]
    ELSE [st EXCEPT !.closeRequested = TRUE]

\* controller.error(e): a no-op unless the stream is readable; otherwise the
\* queue is reset and the stream is errored.
ControllerError(st) ==
    IF st.state # "readable" THEN st
    ELSE [st EXCEPT !.state = "errored", !.queue = <<>>]

\* Values `reader.read()` of the provider body resolves with.
Chunks == { <<65>>, <<195, 169>>, <<195>>, <<169>>, <<255>>, <<239, 187, 191>> }

\* ------------------------------------------- provider responses (inputs)
\* HTTP statuses the provider answers with; ok is 200..299.
Statuses == { 200, 204, 429, 503 }
StatusOk(status) == status >= 200 /\ status <= 299

\* Texts of a provider error body.
ErrTexts == { "", "upstream overloaded" }

Undefined == [kind |-> "undefined"]
JsNull == [kind |-> "null"]
JsString(s) == [kind |-> "string", text |-> s]

\* "Line one\nLine two\nLine three"
LineOneTwoThree ==
    <<"L", "i", "n", "e", " ", "o", "n", "e", "\n",
    "L", "i", "n", "e", " ", "t", "w", "o", "\n",
    "L", "i", "n", "e", " ", "t", "h", "r", "e", "e">>

\* Values of `message.content` in a provider completion.
Contents ==
    { Undefined, JsNull, JsString(<<>>),
      JsString(<<"a", "\n", "b", "\n", "c">>),
      JsString(<<" ", "a", " ">>),
      JsString(<<" ", "\n", "b", " ">>),
      JsString(<<"a">>),
      JsString(<<" ">>),
      JsString(<<"a", "\n", " ">>),
      JsString(LineOneTwoThree),
      [kind |-> "array", first |-> JsString(<<"a">>)] }

\* Bodies of a successful provider response: not JSON, JSON null, or an
\* object that stops at `path`.
JsonBodies ==
    { [kind |-> "invalid"], JsNull }
    \cup { [kind |-> "object", path |-> p, content |-> Undefined] :
             p \in {"noChoices", "emptyChoices", "noMessage"} }
    \cup { [kind |-> "object", path |-> "message", content |-> c] : c \in Contents }

\* JS truthiness of a value of Contents.
JsTruthy(v) ==
    CASE v.kind = "string" -> v.text # <<>>
      [] v.kind = "array" -> TRUE
      [] OTHER -> FALSE

\* Lines 156-159: json.choices?.[0]?.message?.content
\*   || json.choices?.[0]?.message?.content?.[0]?.text || "".
ContentText(json) ==
    LET content == IF json.path = "message" THEN json.content ELSE Undefined
        second == IF content.kind = "array" THEN content.first ELSE Undefined
    IN  IF JsTruthy(content) THEN content
        ELSE IF JsTruthy(second) THEN second
        ELSE JsString(<<>>)

\* Index of the first "\n" of s, or 0.
RECURSIVE NewlineAt(_, _)
NewlineAt(s, i) ==
    IF i > Len(s) THEN 0
    ELSE IF s[i] = "\n" THEN i ELSE NewlineAt(s, i + 1)

\* const [firstLine, ...rest] = contentText.split("\n"): firstLine.
FirstLine(s) ==
    LET n == NewlineAt(s, 1) IN IF n = 0 THEN s ELSE SubSeq(s, 1, n - 1)

\* rest.join("\n")
RestJoined(s) ==
    LET n == NewlineAt(s, 1) IN IF n = 0 THEN <<>> ELSE SubSeq(s, n + 1, Len(s))

FallbackSummary == "AI analysis generated. See detailed breakdown below."

\* AnalysisResult whose details never fall back to the full text.
AnalysisResultRestOnly(contentText) ==
    [ kind |-> "json",
      status |-> 200,
      summary |-> IF Trim(FirstLine(contentText)) # <<>>
                  THEN Seg("", Trim(FirstLine(contentText)))
                  ELSE Seg(FallbackSummary, <<>>),
      details |-> Trim(RestJoined(contentText)) ]

\* AnalysisResult that splits on the last newline instead of the first.
AnalysisResultLastNewline(contentText) ==
    LET n == CHOOSE i \in 0..Len(contentText) :
                 /\ i > 0 => contentText[i] = "\n"
                 /\ \A j \in (i + 1)..Len(contentText) : contentText[j] # "\n"
        first == IF n = 0 THEN contentText ELSE SubSeq(contentText, 1, n - 1)
        rest == IF n = 0 THEN <<>> ELSE SubSeq(contentText, n + 1, Len(contentText))
    IN
    [ kind |-> "json",
      status |-> 200,
      summary |-> IF Trim(first) # <<>> THEN Seg("", Trim(first))
                  ELSE Seg(FallbackSummary, <<>>),
      details |-> IF Trim(rest) # <<>> THEN Trim(rest) ELSE contentText ]

\* Lines 171-181: NextResponse.json({ summary, details }).
AnalysisResult(contentText) ==
    [ kind |-> "json",
      status |-> 200,
      summary |-> IF Trim(FirstLine(contentText)) # <<>>
                  THEN Seg("", Trim(FirstLine(contentText)))
                  ELSE Seg(FallbackSummary, <<>>),
      details |-> IF Trim(RestJoined(contentText)) # <<>>
                  THEN Trim(RestJoined(contentText))
                  ELSE contentText ]

\* The catch block letting the exception escape: no response is returned.
UnexpectedErrorEscapes(message) == NoResponse

\* The catch block of both routes.
UnexpectedError(message) ==
    ErrorJson(500, "Unexpected server error while analyzing video.", <<message>>)

\* ------------------------------------------------------------------ state
VARIABLES
    route,          \* "stream" (part_000) or "json" (next.config.mjs)
    apiKey,         \* process.env.OPENROUTER_API_KEY
    formData,       \* the multipart fields of the request
    pc,             \* POST: "entry", "fetch" (awaiting fetch), "done"
    bodyRead,       \* req.formData() has been called
    urlChecked,     \* new URL(urlInput) has been evaluated
    videoUrl,       \* the resolved videoUrl, NoVideoUrl before
    calls,          \* the outbound fetch calls issued, in order
    openrouterRes,  \* what the provider answered
    res,            \* the response POST returned
    thrown,         \* the message of the exception raised inside POST's try, "none" before
    stream,         \* the ReadableStream handed to the Response
    startPc,        \* start(): "idle", "reading", "returned", "threw"
    upstream,       \* provider body reader: "none", "open", "ended", "failed", "cancelled"
    decoder,        \* the TextDecoder of start()
    upRead,         \* the values reader.read() resolved with, in order
    consumer        \* what the caller's reader observed: [state, got]

\* The streaming page (page.tsx, lines 281-389): its inputs, its React state
\* as committed by a render, and the locals of one handleSubmit call.
VARIABLES
    form,               \* [videoFile, videoUrl, focusPrompt]: the inputs of the page
    isSubmitting,       \* useState(false)
    isStreaming,        \* useState(false)
    analysis,           \* useState(null): NoAnalysis or [summary, details]
    error,              \* useState(null): NoError or [message]
    clientPc,           \* handleSubmit: "idle", "fetching", "reading", "returned"
    request,            \* the FormData sent with fetch, NoRequest before
    events,             \* the delta contents of the event stream the server answers with
    wire,               \* bytes of the response body not yet delivered by reader.read()
    clientDecoder,      \* the page's TextDecoder
    accumulatedSummary, \* let accumulatedSummary
    accumulatedDetails, \* let accumulatedDetails
    isFirstChunk        \* let isFirstChunk

serverVars == << route, apiKey, formData, pc, bodyRead, urlChecked, videoUrl, calls,
                 openrouterRes, res, thrown, stream, startPc, upstream, decoder, upRead,
                 consumer >>

clientVars == << form, isSubmitting, isStreaming, analysis, error, clientPc, request,
                 events, wire, clientDecoder, accumulatedSummary, accumulatedDetails,
                 isFirstChunk >>

vars == << serverVars, clientVars >>

NoAnalysis == [kind |-> "null"]
NoError == [kind |-> "null"]
NoRequest == [kind |-> "none"]

\* The page as mounted, before any submission.
PageMounted ==
    /\ isSubmitting = FALSE
    /\ isStreaming = FALSE
    /\ analysis = NoAnalysis
    /\ error = NoError
    /\ clientPc = "idle"
    /\ request = NoRequest
    /\ events = << >>
    /\ wire = << >>
    /\ clientDecoder = NewDecoder
    /\ accumulatedSummary = << >>
    /\ accumulatedDetails = << >>
    /\ isFirstChunk = TRUE

reqVars == << route, apiKey, formData >>
streamVars == << stream, startPc, upstream, decoder, upRead, consumer >>

NoAnswer == [kind |-> "none"]

Init ==
    /\ route \in {"stream", "json"}
    /\ apiKey \in ApiKeys
    /\ formData \in [video : VideoFields, videoUrl : UrlFields, focusPrompt : FocusFields]
    /\ pc = "entry"
    /\ bodyRead = FALSE
    /\ urlChecked = FALSE
    /\ videoUrl = [kind |-> "null"]
    /\ calls = <<>>
    /\ openrouterRes = NoAnswer
    /\ res = NoResponse
    /\ thrown = "none"
    /\ stream = NoStream
    /\ startPc = "idle"
    /\ upstream = "none"
    /\ decoder = NewDecoder
    /\ upRead = <<>>
    /\ consumer = [state |-> "reading", got |-> <<>>]
    /\ form = [videoFile |-> NullField, videoUrl |-> << >>, focusPrompt |-> << >>]
    /\ PageMounted

\* ---------------------------------------------------------------- actions
\* KeyMissing that never reports the key as missing.
KeyMissingNever(key) == FALSE

\* KeyMissing that tests only for an unset variable.
KeyMissingUnsetOnly(key) == key = "undefined"

\* `!apiKey`: the key is unset or empty.
KeyMissing(key) == key \in {"undefined", ""}

Misconfigured == ErrorJson(500, "Server misconfigured: OPENROUTER_API_KEY is missing.", <<>>)

\* UpstreamErrorStream answering with the catch-all status.
UpstreamErrorStream500(ores) ==
    LET errText == IF ores.textOk THEN ores.text ELSE "" IN
    ErrorJson(500, "OpenRouter request failed. Check model/video compatibility and limits.",
              IF errText # "" THEN <<errText>> ELSE <<"Status ", ToString(ores.status)>>)

\* Lines 131-141 of the streaming route: the response for a provider
\* answer that is not ok.
UpstreamErrorStream(ores) ==
    LET errText == IF ores.textOk THEN ores.text ELSE "" IN
    ErrorJson(502, "OpenRouter request failed. Check model/video compatibility and limits.",
              IF errText # "" THEN <<errText>> ELSE <<"Status ", ToString(ores.status)>>)

\* POST of the streaming route from its entry to its first return or to the
\* outbound fetch (lines 18-129); formOk and bufferOk say whether
\* req.formData() and file.arrayBuffer() resolve.
POSTStream ==
    /\ pc = "entry"
    /\ route = "stream"
    /\ IF KeyMissing(apiKey)
       THEN /\ res' = Misconfigured /\ UNCHANGED thrown
            /\ pc' = "done"
            /\ UNCHANGED << bodyRead, urlChecked, videoUrl, calls >>
       ELSE \E formOk \in BOOLEAN, bufferOk \in BOOLEAN :
            LET r == ResolveStream(formData) IN
            /\ bodyRead' = TRUE
            /\ IF ~formOk
               THEN /\ res' = UnexpectedError("Failed to parse body as FormData.") /\ thrown' = "Failed to parse body as FormData."
                    /\ pc' = "done"
                    /\ UNCHANGED << urlChecked, videoUrl, calls >>
               ELSE IF r.kind = "response"
               THEN /\ res' = r.response /\ UNCHANGED thrown
                    /\ pc' = "done"
                    /\ urlChecked' = r.urlChecked
                    /\ UNCHANGED << videoUrl, calls >>
               ELSE IF formData.video.kind = "File" /\ ~bufferOk
               THEN /\ res' = UnexpectedError("The file could not be read.") /\ thrown' = "The file could not be read."
                    /\ pc' = "done"
                    /\ UNCHANGED << urlChecked, videoUrl, calls >>
               ELSE /\ videoUrl' = [kind |-> "url", url |-> r.url]
                    /\ urlChecked' = r.urlChecked
                    /\ calls' = Append(calls, FetchCallStream(apiKey, formData, r.url))
                    /\ pc' = "fetch"
                    /\ UNCHANGED << res, thrown >>
    /\ UNCHANGED << clientVars, reqVars, openrouterRes, streamVars >>

\* StartStream that builds the stream before looking at the status.
StartStreamAlways(ores) ==
    IF ~ores.hasBody
    THEN [stream |-> ControllerClose(NewStream), startPc |-> "returned", upstream |-> "none"]
    ELSE [stream |-> NewStream, startPc |-> "reading", upstream |-> "open"]

\* Lines 143-176: the ReadableStream of a successful provider answer, after
\* start() has run to its first await; nothing is built for an answer that
\* is not ok.
StartStream(ores) ==
    IF ~StatusOk(ores.status)
    THEN [stream |-> NoStream, startPc |-> "idle", upstream |-> "none"]
    ELSE IF ~ores.hasBody
    THEN [stream |-> ControllerClose(NewStream), startPc |-> "returned", upstream |-> "none"]
    ELSE [stream |-> NewStream, startPc |-> "reading", upstream |-> "open"]

StreamResponse ==
    [kind |-> "stream", status |-> 200, contentType |-> "text/event-stream"]

\* The provider answers the fetch of the streaming route (lines 120-176).
FetchRespondsStream ==
    /\ pc = "fetch"
    /\ route = "stream"
    /\ \E status \in Statuses, text \in ErrTexts, textOk \in BOOLEAN :
        LET ores == [kind |-> "response", status |-> status,
                     text |-> IF StatusOk(status) THEN "" ELSE text,
                     textOk |-> StatusOk(status) \/ textOk,
                     hasBody |-> status # 204]
            s == StartStream(ores)
        IN
        /\ openrouterRes' = ores
        /\ stream' = s.stream
        /\ startPc' = s.startPc
        /\ upstream' = s.upstream
        /\ res' = IF StatusOk(status) THEN StreamResponse ELSE UpstreamErrorStream(ores)
        /\ pc' = "done"
    /\ UNCHANGED << clientVars, reqVars, bodyRead, urlChecked, videoUrl, calls, thrown, decoder, upRead, consumer >>

\* The fetch of the streaming route rejects: the catch block (lines 177-185).
FetchRejectsStream ==
    /\ pc = "fetch"
    /\ route = "stream"
    /\ openrouterRes' = [kind |-> "rejected"]
    /\ res' = UnexpectedError("fetch failed") /\ thrown' = "fetch failed"
    /\ pc' = "done"
    /\ UNCHANGED << clientVars, reqVars, bodyRead, urlChecked, videoUrl, calls, streamVars >>

\* CatchFinally whose close() in the finally block succeeds on the errored
\* stream and ends it normally.
CatchFinallyCloses(st) ==
    [stream |-> [ControllerError(st) EXCEPT !.state = "closed", !.closeRequested = TRUE],
     startPc |-> "returned"]

\* Lines 162-166 after a throw inside the try: controller.error(error), then
\* controller.close() in the finally block; when close() throws, start()
\* rejects and the stream is errored with that reason (a no-op by then).
CatchFinally(st) ==
    LET e == ControllerError(st) IN
    IF CanCloseOrEnqueue(e)
    THEN [stream |-> ControllerClose(e), startPc |-> "returned"]
    ELSE [stream |-> ControllerError(e), startPc |-> "threw"]

\* Lines 157, 164-166 when the loop breaks: controller.close() in the
\* finally block.
BreakFinally(st) ==
    IF CanCloseOrEnqueue(st)
    THEN [stream |-> ControllerClose(st), startPc |-> "returned"]
    ELSE [stream |-> ControllerError(st), startPc |-> "threw"]

\* Lines 156-160: reader.read() resolves with a value; it is decoded,
\* encoded and enqueued; enqueue throws when the stream is no longer
\* readable.
ReadResolves ==
    /\ startPc = "reading"
    /\ upstream = "open"
    /\ Len(upRead) < MaxChunks
    /\ \E value \in Chunks :
        LET r == RelayChunk(decoder, value)
            f == CatchFinally(stream)
        IN
        /\ upRead' = Append(upRead, value)
        /\ decoder' = r.decoder
        /\ IF CanCloseOrEnqueue(stream)
           THEN /\ stream' = ControllerEnqueue(stream, r.chunk)
                /\ UNCHANGED startPc
           ELSE /\ stream' = f.stream
                /\ startPc' = f.startPc
    /\ UNCHANGED << clientVars, reqVars, pc, bodyRead, urlChecked, videoUrl, calls, openrouterRes, res, thrown,
                    upstream, consumer >>

\* Lines 156-157: reader.read() resolves with done.
ReadDone ==
    /\ startPc = "reading"
    /\ upstream = "open"
    /\ upstream' = "ended"
    /\ stream' = BreakFinally(stream).stream
    /\ startPc' = BreakFinally(stream).startPc
    /\ UNCHANGED << clientVars, reqVars, pc, bodyRead, urlChecked, videoUrl, calls, openrouterRes, res, thrown,
                    decoder, upRead, consumer >>

\* Lines 156, 162-166: reader.read() rejects (the provider connection failed).
ReadFails ==
    /\ startPc = "reading"
    /\ upstream = "open"
    /\ upstream' = "failed"
    /\ stream' = CatchFinally(stream).stream
    /\ startPc' = CatchFinally(stream).startPc
    /\ UNCHANGED << clientVars, reqVars, pc, bodyRead, urlChecked, videoUrl, calls, openrouterRes, res, thrown,
                    decoder, upRead, consumer >>

\* The caller reads the response body: an errored stream rejects the read,
\* a queued chunk is delivered (and the stream closes when a requested close
\* finds the queue drained), a closed stream ends.
ConsumerRead ==
    /\ stream.kind = "stream"
    /\ consumer.state = "reading"
    /\ IF stream.state = "errored"
       THEN /\ consumer' = [consumer EXCEPT !.state = "errored"]
            /\ UNCHANGED stream
       ELSE IF stream.queue # <<>>
       THEN /\ consumer' = [consumer EXCEPT !.got = Append(@, Head(stream.queue))]
            /\ stream' = [stream EXCEPT !.queue = Tail(@),
                            !.state = IF stream.closeRequested /\ Tail(stream.queue) = <<>>
                                      THEN "closed" ELSE @]
       ELSE /\ stream.state = "closed"
            /\ consumer' = [consumer EXCEPT !.state = "ended"]
            /\ UNCHANGED stream
    /\ UNCHANGED << clientVars, reqVars, pc, bodyRead, urlChecked, videoUrl, calls, openrouterRes, res, thrown,
                    startPc, upstream, decoder, upRead >>

\* Line 144: the underlying source has no cancel(), so cancelling the stream
\* reaches the provider body reader as nothing.
CancelUpstream(up) == up

\* The caller cancels the response body (or disconnects): a readable stream
\* is closed and its queue reset, then the source's cancel algorithm runs.
ConsumerCancel ==
    /\ stream.kind = "stream"
    /\ consumer.state = "reading"
    /\ consumer' = [consumer EXCEPT !.state = "cancelled"]
    /\ stream' = IF stream.state = "readable"
                 THEN [stream EXCEPT !.state = "closed", !.queue = <<>>]
                 ELSE stream
    /\ upstream' = IF stream.state = "readable" THEN CancelUpstream(upstream) ELSE upstream
    /\ UNCHANGED << clientVars, reqVars, pc, bodyRead, urlChecked, videoUrl, calls, openrouterRes, res, thrown,
                    startPc, decoder, upRead >>

\* POST of the non-streaming route from its entry to its first return or to
\* the outbound fetch (lines 29-140).
POSTJson ==
    /\ pc = "entry"
    /\ route = "json"
    /\ IF KeyMissing(apiKey)
       THEN /\ res' = Misconfigured /\ UNCHANGED thrown
            /\ pc' = "done"
            /\ UNCHANGED << bodyRead, urlChecked, videoUrl, calls >>
       ELSE \E formOk \in BOOLEAN, bufferOk \in BOOLEAN :
            LET r == ResolveJson(formData) IN
            /\ bodyRead' = TRUE
            /\ IF ~formOk
               THEN /\ res' = UnexpectedError("Failed to parse body as FormData.") /\ thrown' = "Failed to parse body as FormData."
                    /\ pc' = "done"
                    /\ UNCHANGED << urlChecked, videoUrl, calls >>
               ELSE IF r.kind = "response"
               THEN /\ res' = r.response /\ UNCHANGED thrown
                    /\ pc' = "done"
                    /\ urlChecked' = r.urlChecked
                    /\ UNCHANGED << videoUrl, calls >>
               ELSE IF formData.video.kind = "File" /\ ~bufferOk
               THEN /\ res' = UnexpectedError("The file could not be read.") /\ thrown' = "The file could not be read."
                    /\ pc' = "done"
                    /\ UNCHANGED << urlChecked, videoUrl, calls >>
               ELSE /\ videoUrl' = [kind |-> "url", url |-> r.url]
                    /\ urlChecked' = r.urlChecked
                    /\ calls' = Append(calls, FetchCallJson(apiKey, formData, r.url))
                    /\ pc' = "fetch"
                    /\ UNCHANGED << res, thrown >>
    /\ UNCHANGED << clientVars, reqVars, openrouterRes, streamVars >>

\* UpstreamErrorJson without the `Status ${status}` fallback.
UpstreamErrorBodyOnly(ores) ==
    LET errText == IF ores.textOk THEN ores.text ELSE "" IN
    ErrorJson(502, "OpenRouter request failed. Check model/video compatibility and limits.",
              <<errText>>)

\* Lines 142-152 of the non-streaming route: the response for a provider
\* answer that is not ok.
UpstreamErrorJson(ores) ==
    LET errText == IF ores.textOk THEN ores.text ELSE "" IN
    ErrorJson(502, "OpenRouter request failed. Check model/video compatibility and limits.",
              IF errText # "" THEN <<errText>> ELSE <<"Status ", ToString(ores.status)>>)

\* Lines 154-172 of the non-streaming route: the message of the exception
\* the handling of an ok answer raises, or "none": res.json() on a body that
\* is not JSON, json.choices on null, contentText.split on a value that is
\* no string.
AnalyzeThrows(ores) ==
    IF ~StatusOk(ores.status) THEN "none"
    ELSE IF ores.json.kind = "invalid" THEN "Unexpected end of JSON input"
    ELSE IF ores.json.kind = "null"
    THEN "Cannot read properties of null (reading 'choices')"
    ELSE IF JsTruthy(ContentText(ores.json)) /\ ContentText(ores.json).kind # "string"
    THEN "contentText.split is not a function"
    ELSE "none"

\* Lines 142-190 of the non-streaming route: the response for a provider
\* answer.
AnalyzeResponse(ores) ==
    IF AnalyzeThrows(ores) # "none" THEN UnexpectedError(AnalyzeThrows(ores))
    ELSE IF ~StatusOk(ores.status) THEN UpstreamErrorJson(ores)
    ELSE LET contentText == ContentText(ores.json) IN
         IF ~JsTruthy(contentText)
         THEN [kind |-> "json", status |-> 502,
               error |-> "No content returned from model.", raw |-> ores.json]
         ELSE AnalysisResult(contentText.text)

\* The provider answers the fetch of the non-streaming route (lines 131-181).
FetchRespondsJson ==
    /\ pc = "fetch"
    /\ route = "json"
    /\ \E status \in Statuses, text \in ErrTexts, textOk \in BOOLEAN, json \in JsonBodies :
        LET ores == [kind |-> "response", status |-> status,
                     text |-> IF StatusOk(status) THEN "" ELSE text,
                     textOk |-> StatusOk(status) \/ textOk,
                     hasBody |-> status # 204,
                     json |-> IF status = 204 \/ (~StatusOk(status) /\ text = "")
                              THEN [kind |-> "invalid"] ELSE json]
        IN
        /\ openrouterRes' = ores
        /\ res' = AnalyzeResponse(ores)
        /\ thrown' = AnalyzeThrows(ores)
        /\ pc' = "done"
    /\ UNCHANGED << clientVars, reqVars, bodyRead, urlChecked, videoUrl, calls, streamVars >>

\* FetchRejectsJson that issues the call a second time before giving up.
FetchRejectsJsonRetry ==
    /\ pc = "fetch"
    /\ route = "json"
    /\ IF Len(calls) < 2
       THEN /\ calls' = Append(calls, calls[1])
            /\ UNCHANGED << openrouterRes, res, thrown, pc >>
       ELSE /\ openrouterRes' = [kind |-> "rejected"]
            /\ res' = UnexpectedError("fetch failed") /\ thrown' = "fetch failed"
            /\ pc' = "done"
            /\ UNCHANGED calls
    /\ UNCHANGED << clientVars, reqVars, bodyRead, urlChecked, videoUrl, streamVars >>

\* The fetch of the non-streaming route rejects: the catch block
\* (lines 182-190).
FetchRejectsJson ==
    /\ pc = "fetch"
    /\ route = "json"
    /\ openrouterRes' = [kind |-> "rejected"]
    /\ res' = UnexpectedError("fetch failed") /\ thrown' = "fetch failed"
    /\ pc' = "done"
    /\ UNCHANGED << clientVars, reqVars, bodyRead, urlChecked, videoUrl, calls, streamVars >>

Next ==
    \/ POSTStream
    \/ FetchRespondsStream
    \/ FetchRejectsStream
    \/ ReadResolves
    \/ ReadDone
    \/ ReadFails
    \/ ConsumerRead
    \/ ConsumerCancel
    \/ POSTJson
    \/ FetchRespondsJson
    \/ FetchRejectsJson

Spec == Init /\ [][Next]_vars

\* ------------------------------------------------------------ properties
FormFailure == UnexpectedError("Failed to parse body as FormData.")
FileFailure == UnexpectedError("The file could not be read.")

\* POST has run its normalization to the end: it is past its entry, the key
\* was present, and neither req.formData() nor file.arrayBuffer() rejected.
NormalizeRan ==
    /\ pc # "entry"
    /\ apiKey = "sk-or-key"
    /\ res # FormFailure
    /\ res # FileFailure

\* The request carries both an uploaded file and a URL string.
BothSupplied ==
    /\ formData.video.kind = "File"
    /\ formData.videoUrl.kind = "string"
    /\ Trim(formData.videoUrl.text) # <<>>

\* The URL of the request was ignored: never parsed, never reported as
\* invalid, never the URL of an outbound call.
UrlIgnored ==
    /\ ~urlChecked
    /\ (res.kind = "json" /\ res.status # 200 => res.error # "Invalid video URL provided.")
    /\ \A i \in 1..Len(calls) : calls[i].content[2].url = fileToDataUrl(formData.video)

\* C1 as stated: with both a file and a URL supplied, normalization always
\* returns the data URL derived from the file and ignores the URL.
C1_AlwaysEmbedded ==
    BothSupplied /\ NormalizeRan =>
        /\ videoUrl = [kind |-> "url", url |-> fileToDataUrl(formData.video)]
        /\ UrlIgnored

\* C1 amended: with both a file and a URL supplied, the URL is ignored in
\* every case; normalization returns the data URL derived from the file when
\* the file is non-empty and not above the ceiling, and otherwise fails with
\* EmptyFile (400) or TooLarge (413) without an outbound call.
C1_FilePrecedence ==
    BothSupplied /\ NormalizeRan =>
        /\ UrlIgnored
        /\ IF formData.video.size = 0
           THEN res.kind = "json" /\ res.status = 400
                /\ res.error = "Uploaded video file is empty." /\ calls = <<>>
           ELSE IF formData.video.size > 100 * 1024 * 1024
           THEN res.kind = "json" /\ res.status = 413 /\ calls = <<>>
           ELSE /\ videoUrl = [kind |-> "url", url |-> fileToDataUrl(formData.video)]
                /\ Len(calls) = 1

\* A file within the ceiling arrives with a URL that does not parse, and the
\* file's data URL has been sent to the provider.
C1_Witness ==
    /\ BothSupplied /\ NormalizeRan
    /\ ~UrlParses(Trim(formData.videoUrl.text))
    /\ Len(calls) = 1
    /\ calls[1].content[2].url = fileToDataUrl(formData.video)
    /\ videoUrl.kind = "url"

\* C2 as stated: every file at or above the ceiling, the ceiling itself
\* included, fails with TooLarge (413) and no outbound call is made.
C2_AtOrAboveCeiling ==
    formData.video.kind = "File" /\ formData.video.size >= 100 * 1024 * 1024 /\ NormalizeRan =>
        /\ res.kind = "json"
        /\ res.status = 413
        /\ calls = <<>>

\* C2 amended: every file strictly above the ceiling fails with TooLarge
\* (413) and no outbound call is made; a file of exactly the ceiling size is
\* accepted and its data URL is sent to the provider.
C2_AboveCeiling ==
    formData.video.kind = "File" /\ NormalizeRan =>
        /\ formData.video.size > 100 * 1024 * 1024 =>
              /\ res = ErrorJson(413,
                    "Video too large. Please compress or trim below 100MB before uploading.",
                    <<>>)
              /\ calls = <<>>
        /\ formData.video.size = 100 * 1024 * 1024 =>
              /\ Len(calls) = 1
              /\ calls[1].content[2].url = fileToDataUrl(formData.video)
              /\ (res.kind = "json" => res.status # 413)

\* A file one byte above the ceiling has been refused with 413.
C2_Witness ==
    /\ formData.video.kind = "File"
    /\ formData.video.size = (100 * 1024 * 1024) + 1
    /\ NormalizeRan
    /\ res.kind = "json"
    /\ res.status = 413

\* C3: once the consumer has cancelled, the provider body reader is no
\* longer open.
C3_CancelClosesUpstream ==
    consumer.state = "cancelled" => upstream # "open"

\* The chunks start() enqueues for the values read from upstream.
RECURSIVE RelayAll(_, _)
RelayAll(d, values) ==
    IF values = <<>> THEN <<>>
    ELSE LET r == RelayChunk(d, Head(values)) IN
         <<r.chunk>> \o RelayAll(r.decoder, Tail(values))

\* C4: when upstream fails after k chunks, a consumer that reads to the end
\* has observed all k relayed chunks, in order, and then a stream error.
C4_ChunksThenError ==
    upstream = "failed" /\ consumer.state \in {"ended", "errored"} =>
        /\ consumer.state = "errored"
        /\ consumer.got = RelayAll(NewDecoder, upRead)

\* The bytes of a sequence of chunks, concatenated.
RECURSIVE Flatten(_)
Flatten(chunks) ==
    IF chunks = <<>> THEN <<>> ELSE Head(chunks) \o Flatten(Tail(chunks))

\* C5: on normal end of stream the bytes the consumer received are the
\* bytes read from upstream.
C5_Verbatim ==
    upstream = "ended" /\ consumer.state = "ended" =>
        Flatten(consumer.got) = Flatten(upRead)

\* C6: when upstream delivers n chunks and closes normally, the consumer
\* observes exactly those n chunks, in order, then a normal end.
C6_ExactChunks ==
    upstream = "ended" /\ consumer.state \in {"ended", "errored"} =>
        /\ consumer.state = "ended"
        /\ consumer.got = upRead

\* C7: in the streaming route a provider answer that is not ok yields the
\* 502 JSON response and nothing of a stream: no ReadableStream, no read of
\* the provider body, no chunk at the consumer.
C7_CleanUpstreamError ==
    route = "stream" /\ openrouterRes.kind = "response"
      /\ (openrouterRes.status < 200 \/ openrouterRes.status > 299) =>
        /\ res.kind = "json"
        /\ res.status = 502
        /\ res.error = "OpenRouter request failed. Check model/video compatibility and limits."
        /\ stream = NoStream
        /\ startPc = "idle"
        /\ upstream = "none"
        /\ upRead = <<>>
        /\ consumer.got = <<>>

\* The streaming route has answered a provider 503 with the 502 response.
C7_Witness ==
    /\ route = "stream"
    /\ openrouterRes.kind = "response"
    /\ openrouterRes.status = 503
    /\ res.kind = "json"
    /\ res.status = 502

\* The media URL u is what the request's input validates to.
ValidMedia(u) ==
    \/ /\ formData.video.kind = "File"
       /\ formData.video.size > 0
       /\ formData.video.size <= 100 * 1024 * 1024
       /\ u = fileToDataUrl(formData.video)
    \/ /\ formData.video.kind # "File"
       /\ formData.videoUrl.kind = "string"
       /\ UrlParses(Trim(formData.videoUrl.text))
       /\ u = Plain(Trim(formData.videoUrl.text))

\* C8: an outbound call is issued only with the key present and a validated
\* media URL, and a validation failure or ServerMisconfigured response is
\* returned with no outbound call issued.
C8_ValidatedBeforeCall ==
    /\ \A i \in 1..Len(calls) :
          /\ apiKey \notin {"undefined", ""}
          /\ calls[i].authorization = <<"Bearer ", apiKey>>
          /\ ValidMedia(calls[i].content[2].url)
    /\ res.kind = "json" /\ res.status \in {400, 413} => calls = <<>>
    /\ res.kind = "json" /\ res.status = 500
         /\ res.error = "Server misconfigured: OPENROUTER_API_KEY is missing." => calls = <<>>

\* An outbound call carrying a URL string that passed the syntax check.
C8_Witness ==
    /\ Len(calls) = 1
    /\ formData.video.kind # "File"
    /\ calls[1].content[2].url = Plain(Trim(formData.videoUrl.text))

\* C9: with the key absent the request ends with ServerMisconfigured (500)
\* whatever its input, and the body is never read, nothing is validated and
\* no outbound call is made.
C9_MisconfiguredFirst ==
    apiKey \in {"undefined", ""} =>
        /\ ~bodyRead
        /\ ~urlChecked
        /\ videoUrl.kind = "null"
        /\ calls = <<>>
        /\ openrouterRes = NoAnswer
        /\ stream = NoStream
        /\ pc \in {"entry", "done"}
        /\ pc = "done" =>
              res = ErrorJson(500, "Server misconfigured: OPENROUTER_API_KEY is missing.", <<>>)

\* A request with an empty key and a valid file has been answered with 500.
C9_Witness ==
    /\ apiKey = ""
    /\ pc = "done"
    /\ formData.video.kind = "File"
    /\ formData.video.size = 4
    /\ res.kind = "json"
    /\ res.status = 500

\* The provider answered the non-streaming route with a status that is
\* not ok.
JsonUpstreamFailed ==
    /\ route = "json"
    /\ openrouterRes.kind = "response"
    /\ (openrouterRes.status < 200 \/ openrouterRes.status > 299)

\* C10 as stated: the response to a provider status s that is not ok
\* carries s, whether the provider's body is empty or not.
C10_CarriesStatus ==
    JsonUpstreamFailed =>
        /\ res.kind = "json"
        /\ res.error = "OpenRouter request failed. Check model/video compatibility and limits."
        /\ \/ res.status = openrouterRes.status
           \/ \E i \in 1..Len(res.details) : res.details[i] = ToString(openrouterRes.status)

\* C10 amended: the response to a provider status s that is not ok is the
\* UpstreamError JSON with HTTP 502 whose details are the provider's body
\* text when that text was read and is non-empty, and "Status s" otherwise;
\* the body is not parsed as JSON (the outcome is the same for a body that
\* is not JSON).
C10_BodyOrStatus ==
    JsonUpstreamFailed =>
        /\ res.kind = "json"
        /\ res.status = 502
        /\ res.error = "OpenRouter request failed. Check model/video compatibility and limits."
        /\ res.details = IF openrouterRes.textOk /\ openrouterRes.text # ""
                         THEN <<openrouterRes.text>>
                         ELSE <<"Status ", ToString(openrouterRes.status)>>

\* A provider 503 with an empty body has been answered with "Status 503".
C10_Witness ==
    /\ JsonUpstreamFailed
    /\ openrouterRes.status = 503
    /\ openrouterRes.text = ""
    /\ res.kind = "json"
    /\ res.details = <<"Status ", "503">>


\* The provider call failed: the fetch rejected, or the provider answered
\* with a status that is not ok.
ProviderCallFailed ==
    \/ openrouterRes.kind = "rejected"
    \/ /\ openrouterRes.kind = "response"
       /\ (openrouterRes.status < 200 \/ openrouterRes.status > 299)

\* C11 as stated: every failure of the provider call, a rejected fetch as
\* well as a status that is not ok, is answered with UpstreamError, HTTP 502.
C11_EveryFailure502 ==
    ProviderCallFailed =>
        /\ res.kind = "json"
        /\ res.status = 502
        /\ res.error = "OpenRouter request failed. Check model/video compatibility and limits."

\* C11 amended: a provider status that is not ok is answered with
\* UpstreamError, HTTP 502, in both routes; a fetch that rejects is answered
\* by the catch block with UnexpectedInternalError, HTTP 500, carrying the
\* error's message.
C11_StatusIs502RejectIs500 ==
    /\ openrouterRes.kind = "response"
         /\ (openrouterRes.status < 200 \/ openrouterRes.status > 299) =>
            /\ res.kind = "json"
            /\ res.status = 502
            /\ res.error = "OpenRouter request failed. Check model/video compatibility and limits."
    /\ openrouterRes.kind = "rejected" =>
            /\ res.kind = "json"
            /\ res.status = 500
            /\ res.error = "Unexpected server error while analyzing video."
            /\ res.details = <<"fetch failed">>

\* The fetch of the streaming route rejected and the request was answered.
C11_Witness ==
    /\ route = "stream"
    /\ openrouterRes.kind = "rejected"
    /\ pc = "done"
    /\ res.kind = "json"
    /\ res.status = 500


\* The provider answered the non-streaming route with an ok status and a
\* body that parsed as JSON.
JsonParsed ==
    /\ route = "json"
    /\ openrouterRes.kind = "response"
    /\ openrouterRes.status >= 200 /\ openrouterRes.status <= 299
    /\ openrouterRes.json.kind # "invalid"

\* The parsed body has a non-empty string as its first choice's text.
HasText ==
    /\ openrouterRes.json.kind = "object"
    /\ openrouterRes.json.path = "message"
    /\ openrouterRes.json.content.kind = "string"
    /\ openrouterRes.json.content.text # <<>>

\* C12: whenever the provider call succeeds but the first choice's text is
\* absent or empty at any level, the answer is EmptyUpstreamResult, HTTP 502.
C12_AbsentTextIs502 ==
    JsonParsed /\ ~HasText =>
        /\ res.kind = "json"
        /\ res.status = 502
        /\ res.error = "No content returned from model."


\* The raw model output of a non-streaming request that was answered with
\* a result.
RawText == openrouterRes.json.content.text

\* The raw model output has no newline.
SingleLine == \A i \in 1..Len(RawText) : RawText[i] # "\n"

\* The text s without its leading and trailing whitespace.
Stripped(s) ==
    LET solid == {i \in 1..Len(s) : s[i] \notin {" ", "\n", "\t"}} IN
    IF solid = {} THEN <<>>
    ELSE SubSeq(s, CHOOSE i \in solid : \A j \in solid : i <= j,
                   CHOOSE i \in solid : \A j \in solid : i >= j)

\* C13 as stated: for a raw output that is a single line, details is the
\* full raw text and summary is that same text.
C13_SummaryIsRaw ==
    JsonParsed /\ HasText /\ SingleLine =>
        /\ res.kind = "json"
        /\ res.status = 200
        /\ res.details = RawText
        /\ res.summary = Seg("", RawText)

\* C13 amended: for a raw output that is a single line, details is the full
\* raw text, and summary is the raw text without its leading and trailing
\* whitespace, or the fallback sentence when the raw text is only whitespace.
C13_SummaryIsTrimmedRaw ==
    JsonParsed /\ HasText /\ SingleLine =>
        /\ res.kind = "json"
        /\ res.status = 200
        /\ res.details = RawText
        /\ res.summary = IF Stripped(RawText) # <<>>
                         THEN Seg("", Stripped(RawText))
                         ELSE Seg("AI analysis generated. See detailed breakdown below.", <<>>)

\* A single line with whitespace around it has been answered.
C13_Witness ==
    /\ JsonParsed /\ HasText /\ SingleLine
    /\ RawText = <<" ", "a", " ">>
    /\ res.kind = "json"
    /\ res.summary = Seg("", <<"a">>)
    /\ res.details = <<" ", "a", " ">>

\* The position of the first newline of s, or Len(s) + 1.
FirstBreak(s) ==
    CHOOSE n \in 1..(Len(s) + 1) :
        /\ n <= Len(s) => s[n] = "\n"
        /\ \A j \in 1..(n - 1) : s[j] # "\n"

\* C14: a non-empty raw output is split on its first newline; summary is the
\* first line trimmed, or the fallback sentence; details is the rest trimmed,
\* or the full raw text; "Line one\nLine two\nLine three" gives "Line one"
\* and "Line two\nLine three".
C14_SplitOnFirstNewline ==
    JsonParsed /\ HasText =>
        LET n == FirstBreak(RawText)
            first == Stripped(SubSeq(RawText, 1, n - 1))
            rest == Stripped(SubSeq(RawText, n + 1, Len(RawText)))
        IN
        /\ res.kind = "json"
        /\ res.status = 200
        /\ res.summary = IF first # <<>> THEN Seg("", first)
                         ELSE Seg("AI analysis generated. See detailed breakdown below.", <<>>)
        /\ res.details = IF rest # <<>> THEN rest ELSE RawText
        /\ Len(RawText) = 28 =>
              /\ res.summary = Seg("", <<"L","i","n","e"," ","o","n","e">>)
              /\ res.details = <<"L","i","n","e"," ","t","w","o","\n",
                                 "L","i","n","e"," ","t","h","r","e","e">>

\* "Line one\nLine two\nLine three" has been answered.
C14_Witness ==
    /\ JsonParsed /\ HasText
    /\ Len(RawText) = 28
    /\ res.kind = "json"
    /\ res.summary = Seg("", <<"L","i","n","e"," ","o","n","e">>)


\* C15: one request issues the outbound call at most once, on every outcome,
\* and a failure of that call (a status that is not ok, a rejected fetch, a
\* failure of the body in mid-stream) ends the request with exactly that one
\* call issued.
C15_NoRetry ==
    /\ Len(calls) <= 1
    /\ openrouterRes.kind # "none" =>
          /\ Len(calls) = 1
          /\ pc = "done"
          /\ res.kind \in {"json", "stream"}
    /\ ProviderCallFailed =>
          /\ res.kind = "json"
          /\ res.status \in {500, 502}
    /\ upstream = "failed" =>
          /\ Len(calls) = 1
          /\ pc = "done"
          /\ stream.state \in {"errored", "closed"}

\* The provider body failed in mid-stream after one chunk, with one call
\* issued.
C15_Witness ==
    /\ upstream = "failed"
    /\ Len(upRead) = 1
    /\ Len(calls) = 1
    /\ stream.state = "errored"


\* The three bytes four base64 sextets stand for.
Dec4(q) ==
    << (q[1] * 4) + (q[2] \div 16),
       ((q[2] % 16) * 16) + (q[3] \div 4),
       ((q[3] % 4) * 64) + q[4] >>

\* The bytes a padded last group of base64 stands for.
DecRest(q) ==
    IF q = <<>> THEN <<>>
    ELSE IF q[3] = 64 THEN << (q[1] * 4) + (q[2] \div 16) >>
    ELSE << (q[1] * 4) + (q[2] \div 16), ((q[2] % 16) * 16) + (q[3] \div 4) >>

\* Decoding the base64 part of the data URL u yields the bytes of file:
\* every full group decodes to the three bytes of the file's period, the
\* last group to the bytes left over, and the lengths agree.
RoundTrips(u, file) ==
    /\ (3 * u.reps) + Len(DecRest(u.rest)) = file.size
    /\ u.reps > 0 => Dec4(u.unit) = file.pattern
    /\ \A i \in 1..Len(DecRest(u.rest)) : DecRest(u.rest)[i] = file.pattern[i]
    /\ \A i \in 1..Len(u.unit) : u.unit[i] \in 0..63
    /\ \A i \in 1..Len(u.rest) : u.rest[i] \in 0..64

\* C16: for a file of non-zero length not above the ceiling the media URL
\* sent is data:{mimeType};base64,{encoded}, where decoding the payload gives
\* back the file's bytes and mimeType is the file's type, or video/mp4 when
\* the type is empty.
C16_DataUrlRoundTrips ==
    formData.video.kind = "File" =>
        \A i \in 1..Len(calls) :
            LET u == calls[i].content[2].url
                file == formData.video
            IN
            /\ u = videoUrl.url
            /\ u.head = <<"d","a","t","a",":">>
                        \o (IF file.type = <<>>
                            THEN <<"v","i","d","e","o","/","m","p","4">> ELSE file.type)
                        \o <<";","b","a","s","e","6","4",",">>
            /\ RoundTrips(u, file)

\* The data URL of a file of exactly the ceiling size, with a declared type,
\* has been sent.
C16_Witness ==
    /\ formData.video.kind = "File"
    /\ formData.video.size = 100 * 1024 * 1024
    /\ formData.video.type # <<>>
    /\ Len(calls) = 1
    /\ calls[1].content[2].url.reps = 34952533
    /\ Len(calls[1].content[2].url.rest) = 4


\* The request carries a URL string and no uploaded file.
UrlOnly ==
    /\ formData.video.kind # "File"
    /\ formData.videoUrl.kind = "string"
    /\ Stripped(formData.videoUrl.text) # <<>>

InvalidUrl == ErrorJson(400, "Invalid video URL provided.", <<>>)

\* C17: with no file, a URL string that is not a valid absolute URL fails
\* with InvalidUrl (400) and no outbound call; a valid absolute URL is sent
\* to the provider as the media URL, whatever its scheme.
C17_UrlSyntaxOnly ==
    UrlOnly /\ NormalizeRan =>
        LET urlInput == Stripped(formData.videoUrl.text) IN
        /\ urlChecked
        /\ IF UrlParses(urlInput)
           THEN /\ Len(calls) = 1
                /\ calls[1].content[2].url = Plain(urlInput)
                /\ res # InvalidUrl
           ELSE /\ res = InvalidUrl
                /\ calls = <<>>
        /\ urlInput \in { <<"n","o","t"," ","a"," ","u","r","l">>,
                          <<"h","t","t","p",":","/","/">> } =>
              res = InvalidUrl /\ calls = <<>>
        /\ urlInput \in { <<"m","a","i","l","t","o",":","x">>,
                          <<"h","t","t","p","s",":","/","/","h","/","v">> } =>
              Len(calls) = 1 /\ calls[1].content[2].url.head = urlInput

\* "not a url" with no file has been refused with 400.
C17_Witness ==
    /\ UrlOnly /\ NormalizeRan
    /\ formData.videoUrl.text = <<"n","o","t"," ","a"," ","u","r","l">>
    /\ res = InvalidUrl
    /\ calls = <<>>


\* The request carries no uploaded file and no URL: the video field is not
\* a File and the videoUrl field is absent, empty or only whitespace.
NeitherSupplied ==
    /\ formData.video.kind # "File"
    /\ formData.videoUrl.kind = "string" => Stripped(formData.videoUrl.text) = <<>>

MissingInput == ErrorJson(400, "Provide a video file or a video URL.", <<>>)
EmptyFile == ErrorJson(400, "Uploaded video file is empty.", <<>>)

\* C18 as stated: a request with neither an uploaded file nor a URL fails
\* with MissingInput (400), a zero-length file fails with EmptyFile (400)
\* even with a valid URL, and neither makes an outbound call.
C18_MissingOrEmpty ==
    NormalizeRan =>
        /\ NeitherSupplied => res = MissingInput /\ calls = <<>>
        /\ formData.video.kind = "File" /\ formData.video.size = 0 =>
              res = EmptyFile /\ calls = <<>>

\* C18 amended: a request with neither an uploaded file nor a URL fails with
\* HTTP 400 and no outbound call: with MissingInput when the video field is
\* absent or empty, and with "Unable to resolve video input." when the video
\* field is a non-empty text value; a zero-length file fails with EmptyFile
\* (400) even with a valid URL, and makes no outbound call.
C18_MissingUnresolvedOrEmpty ==
    NormalizeRan =>
        /\ NeitherSupplied =>
              /\ calls = <<>>
              /\ res = IF formData.video.kind = "string" /\ formData.video.text # <<>>
                       THEN ErrorJson(400, "Unable to resolve video input.", <<>>)
                       ELSE MissingInput
        /\ formData.video.kind = "File" /\ formData.video.size = 0 =>
              res = EmptyFile /\ calls = <<>>

\* A request with no video field and a whitespace URL has been refused as
\* MissingInput.
C18_Witness ==
    /\ NormalizeRan
    /\ formData.video.kind = "null"
    /\ formData.videoUrl.kind = "string"
    /\ formData.videoUrl.text = <<" ", " ">>
    /\ res = MissingInput


\* The focus text of the request, trimmed; empty when the field is absent.
TrimmedFocus ==
    IF formData.focusPrompt.kind = "string" THEN Stripped(formData.focusPrompt.text) ELSE <<>>

\* C19: the prompt sent is the system instruction followed by exactly one
\* suffix: the one quoting the trimmed focus text when that is non-empty, the
\* default one otherwise.
C19_OneSuffix ==
    \A i \in 1..Len(calls) :
        LET prompt == calls[i].content[1].text IN
        /\ calls[i].content[1].type = "text"
        /\ prompt[1] = [lit |-> BaseInstruction, chars |-> <<>>]
        /\ IF TrimmedFocus # <<>>
           THEN /\ Len(prompt) = 3
                /\ prompt[2] = [lit |-> " The user has an additional focus: \"",
                                chars |-> TrimmedFocus]
                /\ prompt[3] = [lit |-> "\". Prioritize this focus in your analysis while still covering core observations.",
                                chars |-> <<>>]
                /\ \A k \in 1..Len(prompt) :
                      prompt[k].lit # " If no additional focus is provided, infer the most valuable insights for a professional audience."
           ELSE /\ Len(prompt) = 2
                /\ prompt[2] = [lit |-> " If no additional focus is provided, infer the most valuable insights for a professional audience.",
                                chars |-> <<>>]

\* A streaming call whose prompt quotes the focus "footwork", trimmed.
C19_Witness ==
    /\ route = "stream"
    /\ Len(calls) = 1
    /\ formData.focusPrompt.kind = "string"
    /\ Len(formData.focusPrompt.text) = 10
    /\ calls[1].content[1].text[2].chars = <<"f","o","o","t","w","o","r","k">>



\* ------------------------------------------------------------------------
\* C20: no exception escapes POST. An exception raised inside the try (by
\* req.formData(), by reading the file, by a rejected fetch, or by parsing
\* the provider body) ends the request with the catch-all JSON response:
\* HTTP 500, the fixed error text, and the exception's message as details.
\* A finished request has a response, a JSON response that reports a failure
\* has a status among 400, 413, 500 and 502, and a response once returned is
\* never replaced by another.
C20_Answered ==
    /\ thrown # "none" =>
          /\ pc = "done"
          /\ res = [kind |-> "json", status |-> 500,
                    error |-> "Unexpected server error while analyzing video.",
                    details |-> << thrown >>]
    /\ pc = "done" =>
          /\ res.kind \in {"json", "stream"}
          /\ res.kind = "stream" => res.status = 200
          /\ res.kind = "json" => res.status \in {200, 400, 413, 500, 502}
    /\ pc # "done" => res.kind = "none" /\ thrown = "none"

C20_NoEscape ==
    /\ []C20_Answered
    /\ [][res.kind # "none" => res' = res /\ thrown' = thrown]_vars

\* The provider answered 200 with a body that is not JSON: res.json() threw
\* and the non-streaming route answered 500 with the parser's message.
C20_Witness ==
    /\ route = "json"
    /\ openrouterRes.kind # "none"
    /\ StatusOk(openrouterRes.status)
    /\ openrouterRes.json.kind = "invalid"
    /\ thrown = "Unexpected end of JSON input"
    /\ res.kind = "json"
    /\ res.status = 500
    /\ res.details = << thrown >>



\* ------------------------------------------------------------------------
\* C21: the relay reads from the provider only when the consumer asks: the
\* chunks read from the provider and not yet taken by the consumer number at
\* most one, and nothing is read before the consumer has taken what was
\* read before.
C21_PullBased ==
    stream.kind = "stream" =>
        /\ Len(stream.queue) <= 1
        /\ Len(upRead) <= Len(consumer.got) + 1



\* ------------------------------------------------------------------------
\* The state of one streaming call: Idle before the handler has run,
\* HeadersSent while the outbound call is awaited, Failed for the 502 of an
\* answer that is not ok, Rejected for every other JSON answer, and for a
\* stream response Streaming while chunks can still be enqueued, Completed
\* once the stream is closed or its close is requested, StreamError once it
\* is errored.
Phase ==
    IF pc = "entry" THEN "Idle"
    ELSE IF pc = "fetch" THEN "HeadersSent"
    ELSE IF stream.kind = "none"
         THEN IF res.kind = "json" /\ res.status = 502 THEN "Failed" ELSE "Rejected"
    ELSE IF stream.state = "errored" THEN "StreamError"
    ELSE IF stream.state = "closed" \/ stream.closeRequested THEN "Completed"
    ELSE "Streaming"

PhaseSteps ==
    { << "Idle", "HeadersSent" >>, << "Idle", "Rejected" >>,
      << "HeadersSent", "Rejected" >>, << "HeadersSent", "Failed" >>,
      << "HeadersSent", "Streaming" >>, << "HeadersSent", "Completed" >>,
      << "Streaming", "Completed" >>, << "Streaming", "StreamError" >> }

C24_SameUpToCall ==
    pc # "entry" =>
        LET r == ResolveStream(formData) IN
        IF KeyMissing(apiKey)
        THEN res = Misconfigured /\ calls = << >> /\ ~bodyRead
        ELSE IF thrown \in {"Failed to parse body as FormData.", "The file could not be read."}
        THEN res.kind = "json" /\ res.status = 500 /\ calls = << >>
        ELSE IF r.kind = "response"
        THEN res = r.response /\ calls = << >> /\ urlChecked = r.urlChecked
        ELSE /\ calls = << [FetchCallStream(apiKey, formData, r.url)
                                EXCEPT !.stream = (route = "stream")] >>
             /\ videoUrl = [kind |-> "url", url |-> r.url]
             /\ urlChecked = r.urlChecked

\* The non-streaming route has issued its call for an uploaded file with a
\* focus prompt.
C24_Witness ==
    /\ route = "json"
    /\ Len(calls) = 1
    /\ formData.video.kind = "File"
    /\ FieldText(formData.focusPrompt) # << >>
    /\ calls[1].stream = FALSE
    /\ calls[1].content[2].type = "input_video"



\* ==================================================== the streaming page
\* The characters the event stream is written in, each with its code point.
Ascii ==
    << << 9, "	" >>, << 10, "\n" >>, << 32, " " >>, << 34, "\"" >>, << 58, ":" >>,
       << 68, "D" >>, << 69, "E" >>, << 78, "N" >>, << 79, "O" >>, << 91, "[" >>,
       << 92, "\\" >>, << 93, "]" >>, << 97, "a" >>, << 98, "b" >>, << 99, "c" >>,
       << 100, "d" >>, << 101, "e" >>, << 104, "h" >>, << 105, "i" >>, << 108, "l" >>,
       << 110, "n" >>, << 111, "o" >>, << 115, "s" >>, << 116, "t" >>, << 123, "{" >>,
       << 125, "}" >> >>

\* The UTF-8 bytes of a text of these characters (one byte each).
ToBytes(s) ==
    [i \in 1..Len(s) |-> Ascii[CHOOSE k \in 1..Len(Ascii) : Ascii[k][2] = s[i]][1]]

\* The string of a sequence of code points; "?" stands for a code point
\* outside the table.
ToText(cps) ==
    [i \in 1..Len(cps) |->
        IF \E k \in 1..Len(Ascii) : Ascii[k][1] = cps[i]
        THEN Ascii[CHOOSE k \in 1..Len(Ascii) : Ascii[k][1] = cps[i]][2]
        ELSE "?"]

StartsWith(s, p) == Len(s) >= Len(p) /\ SubSeq(s, 1, Len(p)) = p
EndsWith(s, p) == Len(s) >= Len(p) /\ SubSeq(s, Len(s) - Len(p) + 1, Len(s)) = p

\* "data: "
DataLead == << "d", "a", "t", "a", ":", " " >>

\* "[DONE]"
DoneMark == << "[", "D", "O", "N", "E", "]" >>

\* The JSON text of one delta around its content string:
\* {"choices":[{"delta":{"content":"  and  "}}]}
DeltaHead ==
    << "{", "\"", "c", "h", "o", "i", "c", "e", "s", "\"", ":", "[",
       "{", "\"", "d", "e", "l", "t", "a", "\"", ":", "{", "\"", "c",
       "o", "n", "t", "e", "n", "t", "\"", ":", "\"" >>
DeltaTail == << "\"", "}", "}", "]", "}" >>

\* A JSON text without a delta: {"choices":[]}
NoDelta == << "{", "\"", "c", "h", "o", "i", "c", "e", "s", "\"", ":", "[",
              "]", "}" >>

\* The body of a JSON string for a text: quote, backslash and newline are
\* escaped.
RECURSIVE JsonEscape(_)
JsonEscape(s) ==
    IF s = << >> THEN << >>
    ELSE ( IF Head(s) = "\n" THEN << "\\", "n" >>
           ELSE IF Head(s) \in {"\"", "\\"} THEN << "\\", Head(s) >>
           ELSE << Head(s) >> ) \o JsonEscape(Tail(s))

\* The text of the body of a JSON string, or a failure: a raw quote, a raw
\* control character, or a backslash that starts no escape.
RECURSIVE JsonUnescape(_)
JsonUnescape(s) ==
    IF s = << >> THEN [ok |-> TRUE, text |-> << >>]
    ELSE IF Head(s) \in {"\"", "\n", "\t"} THEN [ok |-> FALSE]
    ELSE IF Head(s) = "\\"
    THEN IF Len(s) < 2 \/ s[2] \notin {"n", "\"", "\\"} THEN [ok |-> FALSE]
         ELSE LET r == JsonUnescape(SubSeq(s, 3, Len(s))) IN
              IF ~r.ok THEN r
              ELSE [ok |-> TRUE, text |-> << (IF s[2] = "n" THEN "\n" ELSE s[2]) >> \o r.text]
    ELSE LET r == JsonUnescape(Tail(s)) IN
         IF ~r.ok THEN r ELSE [ok |-> TRUE, text |-> << Head(s) >> \o r.text]

\* Lines 357-358: JSON.parse(data) and parsed.choices?.[0]?.delta?.content
\* || "", for the texts an event stream of deltas and its fragments hold: a
\* delta object gives its content, an object without a delta gives "", and
\* every other text here (the empty text, a cut object, a cut "[DONE]") makes
\* JSON.parse throw.
DeltaContent(data) ==
    IF data = NoDelta THEN [ok |-> TRUE, content |-> << >>]
    ELSE IF /\ Len(data) >= Len(DeltaHead) + Len(DeltaTail)
            /\ StartsWith(data, DeltaHead)
            /\ EndsWith(data, DeltaTail)
    THEN LET r == JsonUnescape(SubSeq(data, Len(DeltaHead) + 1, Len(data) - Len(DeltaTail))) IN
         IF r.ok THEN [ok |-> TRUE, content |-> r.text] ELSE [ok |-> FALSE]
    ELSE [ok |-> FALSE]

\* chunk.split("\n")
RECURSIVE SplitLines(_)
SplitLines(s) ==
    LET n == NewlineAt(s, 1) IN
    IF n = 0 THEN << s >>
    ELSE << SubSeq(s, 1, n - 1) >> \o SplitLines(SubSeq(s, n + 1, Len(s)))

\* parts.join("\n")
RECURSIVE JoinLines(_)
JoinLines(parts) ==
    IF parts = << >> THEN << >>
    ELSE IF Len(parts) = 1 THEN parts[1]
    ELSE parts[1] \o << "\n" >> \o JoinLines(Tail(parts))

SummaryPlaceholder == "AI analysis in progress..."
DetailsPlaceholder == "Generating detailed analysis..."



\* Line 343: decoder.decode(value, { stream: true }) of the page, run over
\* the value sixteen bytes at a time; the decoder keeps its state from one
\* call to the next, so the text is the same as for one call.
RECURSIVE DecodeValue(_, _)
DecodeValue(d, value) ==
    IF Len(value) <= 16 THEN DecodeStream(d, value)
    ELSE LET first == DecodeStream(d, SubSeq(value, 1, 16))
             rest == DecodeValue(first.decoder, SubSeq(value, 17, Len(value)))
         IN [decoder |-> rest.decoder, out |-> first.out \o rest.out]

\* Lines 366-374: the analysis displayed for the accumulated text.
Display(accumulated) ==
    LET parts == SplitLines(accumulated)
        summary == parts[1]
        details == JoinLines(Tail(parts))
    IN
    [ kind |-> "analysis",
      summary |-> IF summary # << >> THEN Seg("", summary) ELSE Seg(SummaryPlaceholder, << >>),
      details |-> IF details # << >> THEN Seg("", details) ELSE Seg(DetailsPlaceholder, << >>) ]

\* ProcessLine that keeps only the latest delta instead of appending it.
ProcessLineReplace(st, line) ==
    IF ~StartsWith(line, DataLead) THEN st
    ELSE
    LET data == Trim(SubSeq(line, 7, Len(line))) IN
    IF data = DoneMark THEN st
    ELSE
    LET parsed == DeltaContent(data) IN
    IF ~parsed.ok THEN st
    ELSE IF parsed.content = << >> THEN st
    ELSE [ accumulatedSummary |-> IF st.isFirstChunk THEN parsed.content
                                  ELSE st.accumulatedSummary,
           accumulatedDetails |-> parsed.content,
           isFirstChunk |-> FALSE,
           analysis |-> Display(parsed.content) ]

\* Lines 348-380: the body of `for (const line of lines)` on the locals
\* [accumulatedSummary, accumulatedDetails, isFirstChunk] and the analysis
\* last passed to setAnalysis.
ProcessLine(st, line) ==
    IF ~StartsWith(line, DataLead) THEN st
    ELSE
    LET data == Trim(SubSeq(line, 7, Len(line))) IN
    IF data = DoneMark THEN st
    ELSE
    LET parsed == DeltaContent(data) IN
    IF ~parsed.ok THEN st
    ELSE IF parsed.content = << >> THEN st
    ELSE [ accumulatedSummary |-> IF st.isFirstChunk
                                  THEN st.accumulatedSummary \o parsed.content
                                  ELSE st.accumulatedSummary,
           accumulatedDetails |-> st.accumulatedDetails \o parsed.content,
           isFirstChunk |-> FALSE,
           analysis |-> Display(st.accumulatedDetails \o parsed.content) ]

RECURSIVE ProcessLines(_, _)
ProcessLines(st, lines) ==
    IF lines = << >> THEN st
    ELSE ProcessLines(ProcessLine(st, Head(lines)), Tail(lines))

\* ---------------------------------------------------- inputs of the page
PageFile == [kind |-> "File", size |-> 4, type |-> WebmMime, pattern |-> <<26, 69, 223>>]

\* What the user has put into the form.
Forms ==
    { [videoFile |-> NullField, videoUrl |-> << >>, focusPrompt |-> << " ", "f", " " >>],
      [videoFile |-> NullField, videoUrl |-> << " " >>, focusPrompt |-> << >>],
      [videoFile |-> PageFile, videoUrl |-> << " " >>, focusPrompt |-> << " ", "f", " " >>],
      [videoFile |-> NullField,
       videoUrl |-> << " ", "h", "t", "t", "p", "s", ":", "/", "/", "h", "/", "v", " " >>,
       focusPrompt |-> << >>] }

\* Lines 300-309: the FormData of the request; a field is appended only
\* when it has a value.
PageFormData(f) ==
    [ video |-> f.videoFile,
      videoUrl |-> IF Trim(f.videoUrl) # << >> THEN StrField(Trim(f.videoUrl)) ELSE NullField,
      focusPrompt |-> IF Trim(f.focusPrompt) # << >>
                      THEN StrField(Trim(f.focusPrompt)) ELSE NullField ]

\* The text of an event stream: one "data: " line per delta content, each
\* followed by an empty line, then the "[DONE]" line.
RECURSIVE EventStreamText(_)
EventStreamText(contents) ==
    IF contents = << >> THEN DataLead \o DoneMark \o << "\n", "\n" >>
    ELSE DataLead \o DeltaHead \o JsonEscape(Head(contents)) \o DeltaTail
         \o << "\n", "\n" >> \o EventStreamText(Tail(contents))

\* The delta contents of the event streams the server answers with.
EventStreams ==
    { << << "a" >>, << "\n", "b" >> >>,
      << << >>, << "a", "\n" >>, << "b" >> >> }

\* Error answers of the server: status, and the `error` of the JSON body
\* ("" when the body is no JSON or has no error).
ErrorAnswers ==
    { [status |-> 400, error |-> "Invalid video URL provided."],
      [status |-> 502, error |-> ""] }

\* Messages of the exception a rejected fetch or read carries.
RejectMessages == { "", "Failed to fetch" }

PageError(pieces) == [kind |-> "string", message |-> pieces]

\* Line 383: err.message || "Unexpected error analyzing video."
CaughtMessage(message) ==
    IF message # "" THEN << message >> ELSE << "Unexpected error analyzing video." >>

\* ------------------------------------------------- actions of the page
\* handleSubmit from its entry to the await of fetch (lines 290-322), with
\* the state updates of that turn committed together.
handleSubmit ==
    /\ clientPc = "idle"
    /\ IF form.videoFile.kind = "null" /\ Trim(form.videoUrl) = << >>
       THEN /\ error' = PageError(<< "Provide a video file or a video URL." >>)
            /\ analysis' = NoAnalysis
            /\ clientPc' = "returned"
            /\ UNCHANGED << isSubmitting, isStreaming, request >>
       ELSE /\ error' = NoError
            /\ analysis' = NoAnalysis
            /\ request' = PageFormData(form)
            /\ isSubmitting' = TRUE
            /\ isStreaming' = TRUE
            /\ clientPc' = "fetching"
    /\ UNCHANGED << serverVars, form, events, wire, clientDecoder, accumulatedSummary,
                    accumulatedDetails, isFirstChunk >>

\* Lines 318-322, 382-387: fetch rejects; catch, then finally.
ClientFetchRejects ==
    /\ clientPc = "fetching"
    /\ \E message \in RejectMessages : error' = PageError(CaughtMessage(message))
    /\ isSubmitting' = FALSE
    /\ isStreaming' = FALSE
    /\ clientPc' = "returned"
    /\ UNCHANGED << serverVars, form, analysis, request, events, wire, clientDecoder,
                    accumulatedSummary, accumulatedDetails, isFirstChunk >>

\* Lines 318-337: fetch resolves. An answer that is not ok throws with the
\* error of its JSON body or with its status, an ok answer without a body
\* throws, an ok answer with a body is read.
ClientFetchResponds ==
    /\ clientPc = "fetching"
    /\ \/ /\ \E a \in ErrorAnswers :
                error' = PageError(IF a.error # "" THEN << a.error >>
                                   ELSE << "Request failed with status ", ToString(a.status) >>)
          /\ isSubmitting' = FALSE
          /\ isStreaming' = FALSE
          /\ clientPc' = "returned"
          /\ UNCHANGED << events, wire >>
       \/ /\ error' = PageError(<< "No response body available" >>)
          /\ isSubmitting' = FALSE
          /\ isStreaming' = FALSE
          /\ clientPc' = "returned"
          /\ UNCHANGED << events, wire >>
       \/ /\ \E contents \in EventStreams :
                /\ events' = contents
                /\ wire' = ToBytes(EventStreamText(contents))
          /\ clientPc' = "reading"
          /\ UNCHANGED << error, isSubmitting, isStreaming >>
    /\ UNCHANGED << serverVars, form, analysis, request, clientDecoder, accumulatedSummary,
                    accumulatedDetails, isFirstChunk >>

\* Lines 339-380: reader.read() resolves with the next n bytes of the body;
\* the chunk is decoded, split into lines, and each line handled.
ClientReadResolves ==
    /\ clientPc = "reading"
    /\ wire # << >>
    /\ \E n \in 1..Len(wire) :
        LET value == SubSeq(wire, 1, n)
            d == DecodeValue(clientDecoder, value)
            st == ProcessLines([ accumulatedSummary |-> accumulatedSummary,
                                 accumulatedDetails |-> accumulatedDetails,
                                 isFirstChunk |-> isFirstChunk,
                                 analysis |-> analysis ],
                               SplitLines(ToText(d.out)))
        IN
        /\ wire' = SubSeq(wire, n + 1, Len(wire))
        /\ clientDecoder' = d.decoder
        /\ accumulatedSummary' = st.accumulatedSummary
        /\ accumulatedDetails' = st.accumulatedDetails
        /\ isFirstChunk' = st.isFirstChunk
        /\ analysis' = st.analysis
    /\ UNCHANGED << serverVars, form, isSubmitting, isStreaming, error, clientPc, request,
                    events >>

\* Lines 340-341, 384-387: reader.read() resolves with done; finally.
ClientReadDone ==
    /\ clientPc = "reading"
    /\ wire = << >>
    /\ isSubmitting' = FALSE
    /\ isStreaming' = FALSE
    /\ clientPc' = "returned"
    /\ UNCHANGED << serverVars, form, analysis, error, request, events, wire, clientDecoder,
                    accumulatedSummary, accumulatedDetails, isFirstChunk >>

\* ClientReadFails without the finally block: the flags stay set.
ClientReadFailsNoFinally ==
    /\ clientPc = "reading"
    /\ \E message \in RejectMessages : error' = PageError(CaughtMessage(message))
    /\ clientPc' = "returned"
    /\ UNCHANGED << serverVars, form, isSubmitting, isStreaming, analysis, request, events,
                    wire, clientDecoder, accumulatedSummary, accumulatedDetails, isFirstChunk >>

\* Lines 340, 382-387: reader.read() rejects; catch, then finally.
ClientReadFails ==
    /\ clientPc = "reading"
    /\ \E message \in RejectMessages : error' = PageError(CaughtMessage(message))
    /\ isSubmitting' = FALSE
    /\ isStreaming' = FALSE
    /\ clientPc' = "returned"
    /\ UNCHANGED << serverVars, form, analysis, request, events, wire, clientDecoder,
                    accumulatedSummary, accumulatedDetails, isFirstChunk >>

\* The page mounted with some inputs; the server side is at rest.
ClientInit ==
    /\ route = "stream"
    /\ apiKey = "sk-or-key"
    /\ formData = [video |-> NullField, videoUrl |-> NullField, focusPrompt |-> NullField]
    /\ pc = "entry"
    /\ bodyRead = FALSE
    /\ urlChecked = FALSE
    /\ videoUrl = [kind |-> "null"]
    /\ calls = << >>
    /\ openrouterRes = NoAnswer
    /\ res = NoResponse
    /\ thrown = "none"
    /\ stream = NoStream
    /\ startPc = "idle"
    /\ upstream = "none"
    /\ decoder = NewDecoder
    /\ upRead = << >>
    /\ consumer = [state |-> "reading", got |-> << >>]
    /\ form \in Forms
    /\ PageMounted

ClientNext ==
    \/ handleSubmit
    \/ ClientFetchRejects
    \/ ClientFetchResponds
    \/ ClientReadResolves
    \/ ClientReadDone
    \/ ClientReadFails

ClientSpec == ClientInit /\ [][ClientNext]_vars



\* ------------------------------------------------------------------------
\* C23: when the response body has been read to its end without an error,
\* the accumulated text is the concatenation, in order, of the delta
\* contents of the event stream, and the analysis displayed is the one of
\* that text, however the body was cut into chunks.
C23_ByteStream ==
    (clientPc = "returned" /\ request # NoRequest /\ error = NoError) =>
        /\ accumulatedDetails = Flatten(events)
        /\ analysis = Display(Flatten(events))



\* ------------------------------------------------------------------------
\* The inputs fail the check of lines 295-298: no file and a URL that is
\* empty after trimming.
FailsClientCheck == form.videoFile.kind = "null" /\ Trim(form.videoUrl) = << >>

\* C25: a handleSubmit call that passes the client-side check sends one
\* request, has isSubmitting and isStreaming set while it runs, and has both
\* clear once it has returned, whichever way it ended; a call that fails the
\* check sends no request and never sets either flag, and returns with the
\* error of the check; isStreaming is never set while isSubmitting is clear.
C25_FlagsCleared ==
    /\ isStreaming => isSubmitting
    /\ clientPc = "returned" => ~isSubmitting /\ ~isStreaming
    /\ FailsClientCheck =>
          /\ request = NoRequest
          /\ ~isSubmitting
          /\ ~isStreaming
          /\ clientPc \in {"idle", "returned"}
          /\ clientPc = "returned" => error # NoError
    /\ ~FailsClientCheck =>
          /\ clientPc \in {"fetching", "reading"} => isSubmitting /\ isStreaming
          /\ clientPc # "idle" => request # NoRequest
          /\ clientPc = "returned" =>
                \/ error # NoError
                \/ wire = << >> /\ events # << >>

\* The read of the response body failed after a part of the analysis had
\* been shown, and the call has returned.
C25_Witness ==
    /\ clientPc = "returned"
    /\ request # NoRequest
    /\ error # NoError
    /\ wire # << >>
    /\ accumulatedDetails # << >>
    /\ ~isSubmitting
    /\ ~isStreaming



\* ------------------------------------------------------------------------
\* The deltas of evs at the positions in S, in order, concatenated.
RECURSIVE PickedText(_, _, _)
PickedText(evs, S, i) ==
    IF i > Len(evs) THEN << >>
    ELSE (IF i \in S THEN evs[i] ELSE << >>) \o PickedText(evs, S, i + 1)

\* A displayed text that continues the one displayed before.
Extends(new, old) ==
    /\ new.lit = old.lit
    /\ StartsWith(new.chars, old.chars)

HasNewline(s) == \E i \in 1..Len(s) : s[i] = "\n"

\* Within one submission the accumulated text grows only at its end and is
\* made of delta contents of the stream in their order; the analysis is not
\* cleared by a failure.
AppendOnly ==
    /\ StartsWith(accumulatedDetails', accumulatedDetails)
    /\ \E S \in SUBSET (1..Len(events')) : accumulatedDetails' = PickedText(events', S, 1)
    /\ analysis # NoAnalysis => analysis' # NoAnalysis
    /\ (error = NoError /\ error' # NoError) => analysis' = analysis

\* C26 as stated: within one submission the accumulated text only grows by
\* appending deltas in order; once it contains a newline the summary
\* displayed never changes and the details displayed only get longer; a
\* failure in mid-stream leaves the partial analysis displayed.
C26_DetailsOnlyLonger ==
    [][ clientPc # "idle" =>
          /\ AppendOnly
          /\ HasNewline(accumulatedDetails) =>
                /\ analysis'.summary = analysis.summary
                /\ Extends(analysis'.details, analysis.details)
      ]_vars

\* C26, amended: as above, except that the details displayed are the text
\* after the first newline once that text is not empty, which only gets
\* longer, and the placeholder "Generating detailed analysis..." as long as
\* it is empty; the placeholder is replaced by the text, not continued.
C26_DetailsTextOnlyLonger ==
    [][ clientPc # "idle" =>
          /\ AppendOnly
          /\ HasNewline(accumulatedDetails) =>
                /\ analysis'.summary = analysis.summary
                /\ \/ Extends(analysis'.details, analysis.details)
                   \/ /\ analysis.details = Seg("Generating detailed analysis...", << >>)
                      /\ analysis'.details.lit = ""
                      /\ accumulatedDetails[Len(accumulatedDetails)] = "\n"
                /\ analysis.details.lit = "" => analysis'.details.lit = ""
      ]_vars

\* The placeholder was displayed for "a\n", the text "b" replaced it, and
\* the read of the body then failed: the analysis is still displayed, with
\* the error.
C26_Witness ==
    /\ clientPc = "returned"
    /\ error # NoError
    /\ events = << << >>, << "a", "\n" >>, << "b" >> >>
    /\ accumulatedDetails = << "a", "\n", "b" >>
    /\ analysis # NoAnalysis
    /\ analysis.summary = Seg("", << "a" >>)
    /\ analysis.details = Seg("", << "b" >>)

====
